---- MODULE Spec2Model ----
(***************************************************************************)
(* A model of src/stream/mod.rs of rust-plist: the Event vocabulary, the   *)
(* flattening of a Value into events (IntoEvents), and the lazily bound    *)
(* Reader that sniffs the encoding of a seekable stream.                   *)
(***************************************************************************)
EXTENDS Integers, Sequences, FiniteSets, TLC

VARIABLES
    mode,         \* which scenario runs: "events" (IntoEvents) or "reader" (Reader)
    value,        \* the Value handed to IntoEvents::new
    fpc,          \* "idle" before IntoEvents::new, "iter" once the iterator exists
    into_events,  \* IntoEvents.events, the vec::IntoIter: its buffer and its cursor
    results,      \* every Option<Event> IntoEvents::next has returned, in order
    pending,      \* the caller holds a yielded event it has not written yet
    sink,         \* the reconstructing Writer the caller replays the events into
    wrapped,      \* the R as the caller handed it to Reader::new
    stream,       \* the wrapped R: its bytes, its read position, who holds it
    inner,        \* Reader.0: the ReaderInner variant and what it holds
    rets,         \* every Option<Result<Event, Error>> Reader::next has returned
    trace         \* per pull of Reader::next: the variant before and after, the
                  \* stream before, what the stream did to the probe, and what
                  \* the call did (see Outcome)

vars == <<mode, value, fpc, into_events, results, pending, sink,
          wrapped, stream, inner, rets, trace>>

eventVars == <<value, fpc, into_events, results, pending, sink>>
readerVars == <<wrapped, stream, inner, rets, trace>>

----------------------------------------------------------------------------
(* Bounds of the model *)

\* A Value has at most this many nodes (scalars and containers, keys not counted)
MaxNodes == 4
\* Pulls of IntoEvents::next made after the iterator is exhausted
MaxExtraPulls == 2
\* Bytes a stream holds after its first 8
MaxTail == 2
\* Pulls of Reader::next on one Reader
MaxPulls == 4
\* Pulls of Reader::next whose probe returns an error (mod.rs:137-140)
MaxFailures == 2

----------------------------------------------------------------------------
(* Option<T>: None is the empty tuple, Some(x) the one-element tuple *)

None == <<>>
Some(x) == <<x>>
IsSome(o) == Len(o) = 1
Unwrap(o) == o[1]

Min(a, b) == IF a < b THEN a ELSE b

----------------------------------------------------------------------------
(* Value: the tree type the events flatten (crate root, used at mod.rs:14) *)

Val(k, v) == [kind |-> k, val |-> v]

\* one payload per scalar variant
Scalars ==
    { Val("Boolean", TRUE), Val("Data", <<202, 254>>), Val("Date", "2001-01-01T00:00:00Z"),
      Val("Real", "181.2"), Val("Integer", 28), Val("String", "Age") }

\* the dictionary keys of the model, in the order a dictionary iterates them
\* (sorted); "Age" is also the String payload
Keys == <<"Age", "Height">>

\* the key sequences a dictionary can iterate in: distinct keys, in order
KeySeqs ==
    { [i \in 1..Len(pick) |-> Keys[pick[i]]] :
        pick \in { p \in UNION { [1..j -> 1..Len(Keys)] : j \in 0..Len(Keys) } :
                     \A a, b \in 1..Len(p) : a < b => p[a] < p[b] } }

RECURSIVE ForestsFrom(_, _, _, _)
\* the sequences of Values with m nodes in total whose first Value has k nodes
\* or more, given trees[k], the Values of k nodes, and forests[k + 1], the
\* sequences of k nodes, for every smaller k
ForestsFrom(k, m, trees, forests) ==
    IF k > m THEN {}
    ELSE { <<t>> \o f : t \in trees[k], f \in forests[m - k + 1] }
           \cup ForestsFrom(k + 1, m, trees, forests)

\* the sequences of Values with m nodes in total
ForestsOf(m, trees, forests) ==
    IF m = 0 THEN { <<>> } ELSE ForestsFrom(1, m, trees, forests)

\* the Values with exactly n nodes, whose children are one of `below`, the
\* sequences of n - 1 nodes; a Dictionary is its (key, value) pairs in iteration
\* order
TreesOf(n, below) ==
    (IF n = 1 THEN Scalars ELSE {})
    \cup { Val("Array", f) : f \in below }
    \cup { Val("Dictionary", [i \in 1..Len(p[2]) |-> <<p[1][i], p[2][i]>>]) :
             p \in { q \in KeySeqs \X below : Len(q[1]) = Len(q[2]) } }

RECURSIVE TreesBySize(_, _)
\* <<Trees of 1 node, ..., Trees of max nodes>>, built from the smallest up;
\* table.trees[k] holds the Values of k nodes and table.forests[k + 1] the
\* sequences of k nodes built so far (each level binds its table once, as the
\* one element of a set, so that it is computed once)
TreesBySize(max, table) ==
    CHOOSE done \in
        { IF Len(t.trees) >= max THEN t.trees
          ELSE TreesBySize(max,
                 CHOOSE next \in
                     { [trees |-> Append(t.trees, TreesOf(Len(t.trees) + 1, below)),
                        forests |-> Append(t.forests, below)] :
                         below \in { ForestsOf(Len(t.trees), t.trees, t.forests) } } : TRUE)
          : t \in { table } } : TRUE

RECURSIVE UnionFrom(_, _)
\* sets[i] \cup ... \cup sets[Len(sets)]
UnionFrom(sets, i) ==
    IF i > Len(sets) THEN {} ELSE sets[i] \cup UnionFrom(sets, i + 1)

\* the Values of the model: every Value of at most n nodes
Values(n) ==
    CHOOSE all \in { UnionFrom(trees, 1) :
                       trees \in { TreesBySize(n, [trees |-> <<>>, forests |-> <<>>]) } } :
        TRUE

----------------------------------------------------------------------------
(* Event (mod.rs:31-49) *)

Event(k, v) == [kind |-> k, val |-> v]

StartArray(len) == Event("StartArray", len)
EndArray == Event("EndArray", None)
StartDictionary(len) == Event("StartDictionary", len)
EndDictionary == Event("EndDictionary", None)
BooleanValue(v) == Event("BooleanValue", v)
DataValue(v) == Event("DataValue", v)
DateValue(v) == Event("DateValue", v)
IntegerValue(v) == Event("IntegerValue", v)
RealValue(v) == Event("RealValue", v)
StringValue(v) == Event("StringValue", v)

----------------------------------------------------------------------------
(* IntoEvents::new_inner (mod.rs:65-90): events is the Vec pushed to, the   *)
(* result is the Vec after the call                                        *)

RECURSIVE new_inner(_, _), array_loop(_, _, _), dict_loop(_, _, _)

\* array_loop, had it walked the array from its last element to its first
array_loop_reversed(array, i, events) ==
    IF i > Len(array) THEN events
    ELSE array_loop(array, i + 1, new_inner(array[Len(array) + 1 - i], events))

\* array_loop, had it stopped one element before the end of the array
array_loop_short(array, i, events) ==
    IF i >= Len(array) THEN events
    ELSE array_loop(array, i + 1, new_inner(array[i], events))

\* for value in array { new_inner(value, events) }, from element i on
array_loop(array, i, events) ==
    IF i > Len(array) THEN events
    ELSE array_loop(array, i + 1, new_inner(array[i], events))

\* dict_loop, had it flattened the value of an entry before pushing its key
dict_loop_value_first(dict, i, events) ==
    IF i > Len(dict) THEN events
    ELSE dict_loop(dict, i + 1,
                   Append(new_inner(dict[i][2], events), StringValue(dict[i][1])))

\* for (key, value) in dict { push StringValue(key); new_inner(value, events) }
dict_loop(dict, i, events) ==
    IF i > Len(dict) THEN events
    ELSE dict_loop(dict, i + 1,
                   new_inner(dict[i][2], Append(events, StringValue(dict[i][1]))))

\* new_inner, had the Dictionary arm closed with the Array arm's End event
new_inner_end_array(v, events) ==
    CASE v.kind = "Array" ->
           Append(array_loop(v.val, 1, Append(events, StartArray(Some(Len(v.val))))),
                  EndArray)
      [] v.kind = "Dictionary" ->
           Append(dict_loop(v.val, 1, Append(events, StartDictionary(Some(Len(v.val))))),
                  EndArray)
      [] v.kind = "Boolean" -> Append(events, BooleanValue(v.val))
      [] v.kind = "Data" -> Append(events, DataValue(v.val))
      [] v.kind = "Date" -> Append(events, DateValue(v.val))
      [] v.kind = "Real" -> Append(events, RealValue(v.val))
      [] v.kind = "Integer" -> Append(events, IntegerValue(v.val))
      [] v.kind = "String" -> Append(events, StringValue(v.val))

\* new_inner, had it pushed nothing at all for a container without children
new_inner_skip_empty(v, events) ==
    CASE v.kind = "Array" ->
           IF Len(v.val) = 0 THEN events
           ELSE Append(array_loop(v.val, 1, Append(events, StartArray(Some(Len(v.val))))),
                       EndArray)
      [] v.kind = "Dictionary" ->
           IF Len(v.val) = 0 THEN events
           ELSE Append(dict_loop(v.val, 1, Append(events, StartDictionary(Some(Len(v.val))))),
                       EndDictionary)
      [] v.kind = "Boolean" -> Append(events, BooleanValue(v.val))
      [] v.kind = "Data" -> Append(events, DataValue(v.val))
      [] v.kind = "Date" -> Append(events, DateValue(v.val))
      [] v.kind = "Real" -> Append(events, RealValue(v.val))
      [] v.kind = "Integer" -> Append(events, IntegerValue(v.val))
      [] v.kind = "String" -> Append(events, StringValue(v.val))

\* new_inner, had the Real arm pushed the Integer arm's event
new_inner_real_as_integer(v, events) ==
    CASE v.kind = "Array" ->
           Append(array_loop(v.val, 1, Append(events, StartArray(Some(Len(v.val))))),
                  EndArray)
      [] v.kind = "Dictionary" ->
           Append(dict_loop(v.val, 1, Append(events, StartDictionary(Some(Len(v.val))))),
                  EndDictionary)
      [] v.kind = "Boolean" -> Append(events, BooleanValue(v.val))
      [] v.kind = "Data" -> Append(events, DataValue(v.val))
      [] v.kind = "Date" -> Append(events, DateValue(v.val))
      [] v.kind = "Real" -> Append(events, IntegerValue(v.val))
      [] v.kind = "Integer" -> Append(events, IntegerValue(v.val))
      [] v.kind = "String" -> Append(events, StringValue(v.val))

new_inner(v, events) ==
    CASE v.kind = "Array" ->
           Append(array_loop(v.val, 1, Append(events, StartArray(Some(Len(v.val))))),
                  EndArray)
      [] v.kind = "Dictionary" ->
           Append(dict_loop(v.val, 1, Append(events, StartDictionary(Some(Len(v.val))))),
                  EndDictionary)
      [] v.kind = "Boolean" -> Append(events, BooleanValue(v.val))
      [] v.kind = "Data" -> Append(events, DataValue(v.val))
      [] v.kind = "Date" -> Append(events, DateValue(v.val))
      [] v.kind = "Real" -> Append(events, RealValue(v.val))
      [] v.kind = "Integer" -> Append(events, IntegerValue(v.val))
      [] v.kind = "String" -> Append(events, StringValue(v.val))

\* events.into_iter(): the iterator over the Vec, its cursor on the first element
into_iter(events) == [buf |-> events, idx |-> 1]

\* IntoEvents::new (mod.rs:57-63): the iterator over the events of the value
IntoEvents_new(v) == into_iter(new_inner(v, <<>>))

\* IntoEvents_next, had the exhausted iterator gone back to its first element
IntoEvents_next_rewind(events) ==
    IF events.idx > Len(events.buf)
    THEN [item |-> None, events |-> [events EXCEPT !.idx = 1]]
    ELSE [item |-> Some(events.buf[events.idx]),
          events |-> [events EXCEPT !.idx = events.idx + 1]]

\* Iterator::next of IntoEvents (mod.rs:96-98), self.events.next() of the
\* vec::IntoIter: the element under the cursor, or None once it is past the end
IntoEvents_next(events) ==
    IF events.idx > Len(events.buf) THEN [item |-> None, events |-> events]
    ELSE [item |-> Some(events.buf[events.idx]),
          events |-> [events EXCEPT !.idx = events.idx + 1]]

----------------------------------------------------------------------------
(* Writer (mod.rs:150-152) is a trait; the sink below is the reconstructing *)
(* sink of the specification: it tracks the open containers and the        *)
(* pending dictionary key, and closes a container on its End event         *)

NewSink == [stack |-> <<>>, root |-> None, error |-> FALSE]

Frame(k) == [kind |-> k, items |-> <<>>, key |-> None]

SinkFail(s) == [s EXCEPT !.error = TRUE]

\* the sink expects a dictionary key next
WantsKey(s) ==
    /\ s.stack # <<>>
    /\ s.stack[Len(s.stack)].kind = "Dictionary"
    /\ s.stack[Len(s.stack)].key = None

\* a complete value v arrives at the innermost open container
SinkPut(s, v) ==
    IF s.stack = <<>>
    THEN IF s.root = None THEN [s EXCEPT !.root = Some(v)] ELSE SinkFail(s)
    ELSE LET n == Len(s.stack)
             top == s.stack[n]
         IN  IF top.kind = "Array"
             THEN [s EXCEPT !.stack[n].items = Append(top.items, v)]
             ELSE IF IsSome(top.key)
                  THEN [s EXCEPT !.stack[n].items = Append(top.items, <<Unwrap(top.key), v>>),
                                 !.stack[n].key = None]
                  ELSE IF v.kind = "String"
                       THEN [s EXCEPT !.stack[n].key = Some(v.val)]
                       ELSE SinkFail(s)

SinkOpen(s, k) ==
    IF WantsKey(s) THEN SinkFail(s)
    ELSE [s EXCEPT !.stack = Append(s.stack, Frame(k))]

SinkClose(s, k) ==
    IF s.stack = <<>> THEN SinkFail(s)
    ELSE LET n == Len(s.stack)
             top == s.stack[n]
         IN  IF top.kind # k \/ IsSome(top.key) THEN SinkFail(s)
             ELSE SinkPut([s EXCEPT !.stack = SubSeq(s.stack, 1, n - 1)],
                          Val(k, top.items))

\* the Value variant a scalar event stands for
ScalarKindOf(e) ==
    CASE e.kind = "BooleanValue" -> "Boolean"
      [] e.kind = "DataValue" -> "Data"
      [] e.kind = "DateValue" -> "Date"
      [] e.kind = "IntegerValue" -> "Integer"
      [] e.kind = "RealValue" -> "Real"
      [] e.kind = "StringValue" -> "String"

\* Writer::write of the reconstructing sink
Writer_write(s, e) ==
    IF s.error THEN s
    ELSE CASE e.kind = "StartArray" -> SinkOpen(s, "Array")
           [] e.kind = "StartDictionary" -> SinkOpen(s, "Dictionary")
           [] e.kind = "EndArray" -> SinkClose(s, "Array")
           [] e.kind = "EndDictionary" -> SinkClose(s, "Dictionary")
           [] OTHER -> SinkPut(s, Val(ScalarKindOf(e), e.val))

----------------------------------------------------------------------------
(* The stream R: Read + Seek (mod.rs:12, 101): its bytes and read position  *)

\* b"bplist00" (mod.rs:120)
Magic == <<98, 112, 108, 105, 115, 116, 48, 48>>
\* let mut magic = [0; 8] (mod.rs:116)
MagicLen == 8

\* "<?xml ve", how a markup plist begins
XmlHead == <<60, 63, 120, 109, 108, 32, 118, 101>>
\* a byte neither sub-reader of the model accepts
InvalidByte == 0
\* the bytes put in place of one byte of the signature: "B", and the invalid byte
OtherBytes == {66, InvalidByte}
\* the bytes that follow the first 8: "<", and the invalid byte
TailBytes == {60, InvalidByte}

Heads ==
    {Magic, XmlHead}
    \cup { [Magic EXCEPT ![i] = b] : i \in 1..MagicLen, b \in OtherBytes }

Tails == UNION { [1..n -> TailBytes] : n \in 0..MaxTail }

\* the contents of the streams of the model: every head with every tail, and
\* every proper prefix of a head (the streams shorter than the signature)
Contents ==
    { h \o t : h \in Heads, t \in Tails }
    \cup { SubSeq(h, 1, n) : h \in Heads, n \in 0..(MagicLen - 1) }

\* the read positions a stream of the model is wrapped at
StartPositions(data) == {0, Min(3, Len(data)), Len(data)}

\* Result<T, Error> and the Option around it
Ok(v) == [kind |-> "Ok", val |-> v]
Err(e) == [kind |-> "Err", val |-> e]
IsErr(r) == r.kind = "Err"

\* what the stream does to the calls of one probe: no failure, or an I/O error
\* of the first seek, of the read, or of the second seek
Faults == {"none", "seek1", "read", "seek2"}

\* a call on the stream that panics instead of returning: the unwinding leaves
\* is_binary and next at once, past every statement that would have followed
Unwound == [kind |-> "Unwind", val |-> "panic"]
IsUnwound(r) == r.kind = "Unwind"

\* what else the stream can do to the calls of one probe: panic in the first
\* seek, in the read, or in the second seek
Unwinds == {"seek1 panics", "read panics", "seek2 panics"}

\* seek_start, had it been called with SeekFrom::Current(0)
seek_start_current(reader, fails) ==
    IF fails THEN [result |-> Err("io: seek"), reader |-> reader]
    ELSE [result |-> Ok(reader.pos), reader |-> reader]

\* reader.seek(SeekFrom::Start(0)): the position becomes 0, or the call fails
\* and the position stays
seek_start(reader, fails) ==
    IF fails THEN [result |-> Err("io: seek"), reader |-> reader]
    ELSE [result |-> Ok(0), reader |-> [reader EXCEPT !.pos = 0]]

\* read_exact, had it been a single read: fewer bytes than asked are no error,
\* the rest of the buffer stays zero
read_exact_as_read(reader, n, fails, left) ==
    IF fails THEN [result |-> Err("io: read"), reader |-> [reader EXCEPT !.pos = left]]
    ELSE LET got == Min(n, Len(reader.data) - reader.pos)
         IN  [result |-> Ok([i \in 1..n |-> IF i <= got THEN reader.data[reader.pos + i]
                                                         ELSE 0]),
              reader |-> [reader EXCEPT !.pos = reader.pos + got]]

\* reader.read_exact(&mut buf) for n bytes: the n bytes under the position; an
\* UnexpectedEof error when fewer are left (they are consumed); an I/O error
\* that leaves the position at `left`
read_exact(reader, n, fails, left) ==
    IF fails THEN [result |-> Err("io: read"), reader |-> [reader EXCEPT !.pos = left]]
    ELSE IF Len(reader.data) - reader.pos < n
         THEN [result |-> Err("io: UnexpectedEof"),
               reader |-> [reader EXCEPT !.pos = Len(reader.data)]]
         ELSE [result |-> Ok(SubSeq(reader.data, reader.pos + 1, reader.pos + n)),
               reader |-> [reader EXCEPT !.pos = reader.pos + n]]

----------------------------------------------------------------------------
(* XmlReader and BinaryReader (mod.rs:3-7): the sub-readers. Each owns the   *)
(* stream it was built over and parses it from the position it was handed: *)
(* its first pull reads an 8-byte header, every pull one more byte as one   *)
(* event; after an error or the end of the stream it returns None for good *)

SubReader_new(reader) == [start |-> reader.pos, started |-> FALSE, finished |-> FALSE]
XmlReader_new(reader) == SubReader_new(reader)
BinaryReader_new(reader) == SubReader_new(reader)

\* the header a sub-reader accepts
HeaderOk(fmt, header) ==
    IF fmt = "Binary" THEN header = Magic
    ELSE \A i \in 1..Len(header) : header[i] # InvalidByte

\* the event a sub-reader makes of one byte
Token(fmt, b) == IF fmt = "Binary" THEN IntegerValue(b) ELSE StringValue(b)

SubFinish(parser, reader, ret) ==
    [ret |-> ret, parser |-> [parser EXCEPT !.started = TRUE, !.finished = TRUE],
     reader |-> reader]

\* one event: the byte under the position
SubToken(fmt, parser, reader) ==
    IF reader.pos >= Len(reader.data) THEN SubFinish(parser, reader, None)
    ELSE LET b == reader.data[reader.pos + 1]
             after == [reader EXCEPT !.pos = reader.pos + 1]
         IN  IF b = InvalidByte
             THEN SubFinish(parser, after, Some(Err("InvalidData")))
             ELSE [ret |-> Some(Ok(Token(fmt, b))),
                   parser |-> [parser EXCEPT !.started = TRUE], reader |-> after]

SubReader_next(fmt, parser, reader) ==
    IF parser.finished THEN [ret |-> None, parser |-> parser, reader |-> reader]
    ELSE IF parser.started THEN SubToken(fmt, parser, reader)
    ELSE LET head == read_exact(reader, MagicLen, FALSE, 0)
         IN  IF IsErr(head.result) \/ ~HeaderOk(fmt, head.result.val)
             THEN SubFinish(parser, head.reader, Some(Err("InvalidData")))
             ELSE SubToken(fmt, parser, head.reader)

XmlReader_next(parser, reader) == SubReader_next("Xml", parser, reader)
BinaryReader_next(parser, reader) == SubReader_next("Binary", parser, reader)

----------------------------------------------------------------------------
(* Reader (mod.rs:101-147) *)

\* ReaderInner (mod.rs:103-107); the stream itself is the variable `stream`,
\* held by the variant: by Uninitialized when held, else by the parser
Uninitialized(held) == [tag |-> "Uninitialized", held |-> held, parser |-> None]
Xml(parser) == [tag |-> "Xml", held |-> FALSE, parser |-> Some(parser)]
Binary(parser) == [tag |-> "Binary", held |-> FALSE, parser |-> Some(parser)]

IsBound(i) == i.tag \in {"Xml", "Binary"}

\* Reader::new (mod.rs:110-112)
Reader_new(reader) == [inner |-> Uninitialized(TRUE), reader |-> reader]

\* magic_matches, had it compared the format name "bplist" and not the version
magic_matches_name_only(magic) == SubSeq(magic, 1, 6) = SubSeq(Magic, 1, 6)

\* &magic == b"bplist00" (mod.rs:120)
magic_matches(magic) == magic = Magic

\* is_binary, had it read the 8 bytes from wherever the stream stands instead
\* of seeking to the start first
is_binary_no_first_seek(reader, io) ==
    LET rd == read_exact(reader, MagicLen, io.fault = "read", io.left)
    IN  IF IsErr(rd.result)
        THEN [result |-> rd.result, reader |-> rd.reader, ops |-> <<"read8">>]
        ELSE LET s2 == seek_start(rd.reader, io.fault = "seek2")
             IN  IF IsErr(s2.result)
                 THEN [result |-> s2.result, reader |-> s2.reader,
                       ops |-> <<"read8", "seek0">>]
                 ELSE [result |-> Ok(magic_matches(rd.result.val)),
                       reader |-> s2.reader,
                       ops |-> <<"read8", "seek0">>]

\* Reader::is_binary (mod.rs:114-121): the Result, the stream after the call,
\* and the calls made on the stream; io is what the stream does to them
is_binary(reader, io) ==
    LET s1 == IF io.fault = "seek1 panics"
              THEN [result |-> Unwound, reader |-> reader]
              ELSE seek_start(reader, io.fault = "seek1")
    IN  IF IsErr(s1.result) \/ IsUnwound(s1.result)
        THEN [result |-> s1.result, reader |-> s1.reader, ops |-> <<"seek0">>]
        ELSE LET rd == IF io.fault = "read panics"
                       THEN [result |-> Unwound,
                             reader |-> [s1.reader EXCEPT !.pos = io.left]]
                       ELSE read_exact(s1.reader, MagicLen, io.fault = "read", io.left)
             IN  IF IsErr(rd.result) \/ IsUnwound(rd.result)
                 THEN [result |-> rd.result, reader |-> rd.reader,
                       ops |-> <<"seek0", "read8">>]
                 ELSE LET s2 == IF io.fault = "seek2 panics"
                                THEN [result |-> Unwound, reader |-> rd.reader]
                                ELSE seek_start(rd.reader, io.fault = "seek2")
                      IN  IF IsErr(s2.result) \/ IsUnwound(s2.result)
                          THEN [result |-> s2.result, reader |-> s2.reader,
                                ops |-> <<"seek0", "read8", "seek0">>]
                          ELSE [result |-> Ok(magic_matches(rd.result.val)),
                                reader |-> s2.reader,
                                ops |-> <<"seek0", "read8", "seek0">>]

\* what one call of Reader::next leaves: the Reader (inner and stream), the
\* value returned, the calls made on the stream by the probe, how deep next
\* was entered, the position of the stream handed to a sub-reader built in
\* the call, and whether the call panicked
Outcome(inner_, reader, ret, ops, depth, handed, panicked) ==
    [inner |-> inner_, reader |-> reader, ret |-> ret, ops |-> ops, depth |-> depth,
     handed |-> handed, panicked |-> panicked]

\* forward, had it put the stream back into Uninitialized when the sub-reader
\* reports an error, for the next pull to classify it again
forward_rebind(self, depth) ==
    LET r == IF self.inner.tag = "Xml"
             THEN XmlReader_next(Unwrap(self.inner.parser), self.reader)
             ELSE BinaryReader_next(Unwrap(self.inner.parser), self.reader)
    IN  IF r.ret # None /\ IsErr(Unwrap(r.ret))
        THEN Outcome(Uninitialized(TRUE), r.reader, r.ret, <<>>, depth, None, FALSE)
        ELSE Outcome([self.inner EXCEPT !.parser = Some(r.parser)], r.reader, r.ret,
                     <<>>, depth, None, FALSE)

\* forward, had it dropped the errors of the sub-reader (parser.next() taken
\* through .ok()): an error ends the stream
forward_swallow(self, depth) ==
    LET r == IF self.inner.tag = "Xml"
             THEN XmlReader_next(Unwrap(self.inner.parser), self.reader)
             ELSE BinaryReader_next(Unwrap(self.inner.parser), self.reader)
    IN  Outcome([self.inner EXCEPT !.parser = Some(r.parser)], r.reader,
                IF r.ret # None /\ IsErr(Unwrap(r.ret)) THEN None ELSE r.ret,
                <<>>, depth, None, FALSE)

\* forward, had a bound Reader classified the stream again before every
\* parser.next()
forward_reprobe(self, depth) ==
    LET probe == is_binary(self.reader, [fault |-> "none", left |-> 0])
        r == IF self.inner.tag = "Xml"
             THEN XmlReader_next(Unwrap(self.inner.parser), probe.reader)
             ELSE BinaryReader_next(Unwrap(self.inner.parser), probe.reader)
    IN  Outcome([self.inner EXCEPT !.parser = Some(r.parser)], r.reader, r.ret,
                probe.ops, depth, None, FALSE)

\* the arms of a bound Reader (mod.rs:129-130): return parser.next()
forward(self, depth) ==
    LET r == IF self.inner.tag = "Xml"
             THEN XmlReader_next(Unwrap(self.inner.parser), self.reader)
             ELSE BinaryReader_next(Unwrap(self.inner.parser), self.reader)
    IN  Outcome([self.inner EXCEPT !.parser = Some(r.parser)], r.reader, r.ret,
                <<>>, depth, None, FALSE)

RECURSIVE Reader_next(_, _, _)

\* bind, had the Err arm fallen through to the markup sub-reader instead of
\* restoring Uninitialized and returning the error
bind_err_as_xml(self, io, depth) ==
    LET probe == is_binary(self.reader, io)
        event_reader == IF ~IsErr(probe.result) /\ probe.result.val
                        THEN Binary(BinaryReader_new(probe.reader))
                        ELSE Xml(XmlReader_new(probe.reader))
        served == Reader_next([inner |-> event_reader, reader |-> probe.reader],
                              io, depth + 1)
    IN  [served EXCEPT !.ops = probe.ops \o served.ops,
                       !.handed = Some(probe.reader.pos)]

\* bind, had the Err arm of the first entry put the stream back and called
\* self.next() to probe once more instead of returning the error
bind_retry(self, io, depth) ==
    LET probe == is_binary(self.reader, io)
    IN  IF IsErr(probe.result)
        THEN IF depth > 1
             THEN Outcome(Uninitialized(TRUE), probe.reader, Some(probe.result),
                          probe.ops, depth, None, FALSE)
             ELSE LET again == Reader_next([inner |-> Uninitialized(TRUE),
                                            reader |-> probe.reader],
                                           [fault |-> "none", left |-> 0], depth + 1)
                  IN  [again EXCEPT !.ops = probe.ops \o again.ops]
        ELSE LET event_reader == IF probe.result.val
                                 THEN Binary(BinaryReader_new(probe.reader))
                                 ELSE Xml(XmlReader_new(probe.reader))
                 served == Reader_next([inner |-> event_reader, reader |-> probe.reader],
                                       io, depth + 1)
             IN  [served EXCEPT !.ops = probe.ops \o served.ops,
                                !.handed = Some(probe.reader.pos)]

\* the rest of next for the stream taken out of Uninitialized (mod.rs:134-145):
\* probe, then restore Uninitialized and return the error, or put the
\* sub-reader in place and call self.next(); a panic of the stream unwinds
\* out of next before either, nothing is returned and self.0 stays as take()
\* left it, Uninitialized(None)
bind(self, io, depth) ==
    LET probe == is_binary(self.reader, io)
    IN  IF IsUnwound(probe.result)
        THEN Outcome(self.inner, probe.reader, None, probe.ops, depth, None, TRUE)
        ELSE IF IsErr(probe.result)
        THEN Outcome(Uninitialized(TRUE), probe.reader, Some(probe.result),
                     probe.ops, depth, None, FALSE)
        ELSE LET event_reader == IF probe.result.val
                                 THEN Binary(BinaryReader_new(probe.reader))
                                 ELSE Xml(XmlReader_new(probe.reader))
                 served == Reader_next([inner |-> event_reader, reader |-> probe.reader],
                                       io, depth + 1)
             IN  [served EXCEPT !.ops = probe.ops \o served.ops,
                                !.handed = Some(probe.reader.pos)]

\* Iterator::next of Reader (mod.rs:127-146), entered at the given depth
Reader_next(self, io, depth) ==
    IF IsBound(self.inner) THEN forward(self, depth)
    ELSE IF ~self.inner.held
         THEN \* reader.take().unwrap() on None
              Outcome(self.inner, self.reader, None, <<>>, depth, None, TRUE)
         ELSE bind([self EXCEPT !.inner = Uninitialized(FALSE)], io, depth)

----------------------------------------------------------------------------
(* The flattening scenario: a caller builds the iterator, pulls it and      *)
(* writes every event it gets to the sink                                   *)

\* the pulls that returned None so far
Exhaustions == Cardinality({ i \in 1..Len(results) : results[i] = None })

\* no Reader exists in the flattening scenario
IdleReader == Uninitialized(FALSE)

InitEvents ==
    /\ mode = "events"
    /\ value \in Values(MaxNodes)
    /\ fpc = "idle"
    /\ into_events = into_iter(<<>>)
    /\ results = <<>>
    /\ pending = FALSE
    /\ sink = NewSink
    /\ wrapped = [data |-> <<>>, pos |-> 0]
    /\ stream = wrapped
    /\ inner = IdleReader
    /\ rets = <<>>
    /\ trace = <<>>

\* let events = IntoEvents::new(value)
IntoEventsNew ==
    /\ mode = "events"
    /\ fpc = "idle"
    /\ fpc' = "iter"
    /\ into_events' = IntoEvents_new(value)
    /\ UNCHANGED <<mode, value, results, pending, sink, readerVars>>

\* events.next()
IntoEventsNext ==
    /\ mode = "events"
    /\ fpc = "iter"
    /\ ~pending
    /\ Exhaustions < MaxExtraPulls
    /\ LET r == IntoEvents_next(into_events)
       IN  /\ into_events' = r.events
           /\ results' = Append(results, r.item)
           /\ pending' = IsSome(r.item)
    /\ UNCHANGED <<mode, value, fpc, sink, readerVars>>

\* writer.write(&event) for the event the last pull yielded
WriterWrite ==
    /\ mode = "events"
    /\ pending
    /\ sink' = Writer_write(sink, Unwrap(results[Len(results)]))
    /\ pending' = FALSE
    /\ UNCHANGED <<mode, value, fpc, into_events, results, readerVars>>

NextEvents == IntoEventsNew \/ IntoEventsNext \/ WriterWrite

SpecEvents == InitEvents /\ [][NextEvents]_vars

----------------------------------------------------------------------------
(* Reading a flat event sequence back: the scans the claims are stated with *)

IsStart(e) == e.kind \in {"StartArray", "StartDictionary"}
IsEnd(e) == e.kind \in {"EndArray", "EndDictionary"}
\* the Start kind an End event closes
OpenerOf(e) == IF e.kind = "EndArray" THEN "StartArray" ELSE "StartDictionary"

RECURSIVE Balance(_, _, _)
\* scan evs from index i with a stack of the open Start kinds; ok is FALSE at
\* the first End that meets an empty stack or a Start of the other kind
Balance(evs, i, stack) ==
    IF i > Len(evs) THEN [ok |-> TRUE, stack |-> stack]
    ELSE LET e == evs[i]
         IN  IF IsStart(e) THEN Balance(evs, i + 1, Append(stack, e.kind))
             ELSE IF IsEnd(e)
                  THEN IF stack # <<>> /\ stack[Len(stack)] = OpenerOf(e)
                       THEN Balance(evs, i + 1, SubSeq(stack, 1, Len(stack) - 1))
                       ELSE [ok |-> FALSE, stack |-> stack]
                  ELSE Balance(evs, i + 1, stack)

RECURSIVE Closer(_, _, _)
\* the index of the End that brings the nesting depth d back to 0, from j on
Closer(evs, j, d) ==
    IF j > Len(evs) THEN 0
    ELSE IF IsStart(evs[j]) THEN Closer(evs, j + 1, d + 1)
         ELSE IF IsEnd(evs[j])
              THEN IF d = 1 THEN j ELSE Closer(evs, j + 1, d - 1)
              ELSE Closer(evs, j + 1, d)

\* the index of the End matching the Start at i (0: none)
MatchEnd(evs, i) == Closer(evs, i + 1, 1)

RECURSIVE ChildSpans(_, _, _)
\* the direct children lying in evs[from..to], each as <<first, last>>: a scalar
\* event, or a Start with everything up to its matching End
ChildSpans(evs, from, to) ==
    IF from > to THEN <<>>
    ELSE LET last == IF IsStart(evs[from]) THEN MatchEnd(evs, from) ELSE from
         IN  IF last = 0 \/ last > to THEN << <<from, to>> >>
             ELSE << <<from, last>> >> \o ChildSpans(evs, last + 1, to)

RECURSIVE PreOrder(_), PreOrderAll(_, _)
\* the nodes of a Value in pre-order
PreOrder(v) ==
    CASE v.kind = "Array" -> <<v>> \o PreOrderAll(v.val, 1)
      [] v.kind = "Dictionary" ->
           <<v>> \o PreOrderAll([i \in 1..Len(v.val) |-> v.val[i][2]], 1)
      [] OTHER -> <<v>>
PreOrderAll(vs, i) ==
    IF i > Len(vs) THEN <<>> ELSE PreOrder(vs[i]) \o PreOrderAll(vs, i + 1)

\* nesting depth of a Value: 1 for a scalar or an empty container
RECURSIVE Depth(_), MaxDepth(_, _)
Depth(v) ==
    IF v.kind \in {"Array", "Dictionary"}
    THEN 1 + MaxDepth([i \in 1..Len(v.val) |->
                          IF v.kind = "Array" THEN v.val[i] ELSE v.val[i][2]], 1)
    ELSE 1
MaxDepth(vs, i) ==
    IF i > Len(vs) THEN 0
    ELSE LET a == Depth(vs[i])
             b == MaxDepth(vs, i + 1)
         IN  IF a > b THEN a ELSE b

\* the indices of evs, in order, whose event has kind k
IndicesOf(evs, k) == SelectSeq([i \in 1..Len(evs) |-> i], LAMBDA i : evs[i].kind = k)

----------------------------------------------------------------------------
(* Claims about the flattening *)

\* IntoEvents::new has returned and nothing was pulled yet: into_events.buf is
\* the event sequence built for value
Flattened == mode = "events" /\ fpc = "iter" /\ into_events.idx = 1

\* C1: the event sequence IntoEvents::new builds for any Value is stack-balanced:
\* scanned left to right with a stack, every End closes the innermost open Start
\* and is of its kind, no End meets an empty stack, the stack ends empty, and so
\* every Start has its one matching End
C1_StackBalanced ==
    Flattened =>
        LET evs == into_events.buf
            r == Balance(evs, 1, <<>>)
        IN  /\ r.ok
            /\ r.stack = <<>>
            /\ \A i \in 1..Len(evs) :
                   IsStart(evs[i]) =>
                       /\ MatchEnd(evs, i) > i
                       /\ OpenerOf(evs[MatchEnd(evs, i)]) = evs[i].kind

\* C1 witness: a Value nested three deep around an empty container was flattened
C1_Witness ==
    /\ Flattened
    /\ Depth(value) = 3
    /\ value = Val("Array", << Val("Dictionary", << <<"Age", Val("Array", <<>>)>> >>) >>)
    /\ into_events.buf = << StartArray(Some(1)), StartDictionary(Some(1)),
                            StringValue("Age"), StartArray(Some(0)), EndArray,
                            EndDictionary, EndArray >>

\* the caller has pulled every event and written each to the sink
Replayed == fpc = "iter" /\ into_events.idx > Len(into_events.buf) /\ ~pending

\* C2: round trip: once every event of IntoEvents::new(V) was replayed, in order,
\* into the reconstructing sink, the sink holds exactly V (element order and key
\* order included) with no container left open; the sink never rejects an event
C2_RoundTrip ==
    mode = "events" =>
        /\ ~sink.error
        /\ Replayed => (sink.stack = <<>> /\ sink.root = Some(value))

\* C2 witness: an array holding a dictionary of two entries has been replayed
\* and rebuilt
C2_Witness ==
    /\ Replayed
    /\ value = Val("Array", << Val("Dictionary", << <<"Age", Val("Integer", 28)>>,
                                                     <<"Height", Val("Real", "181.2")>> >>) >>)
    /\ sink.root = Some(value)

\* the Dictionary nodes of a Value in pre-order
DictNodes(v) == SelectSeq(PreOrder(v), LAMBDA n : n.kind = "Dictionary")

\* C10: every Dictionary node of n entries flattens to StartDictionary(Some(n)),
\* then per entry, in iteration order, StringValue(key) directly followed by the
\* whole flattening of the entry's value, then EndDictionary: 2n direct children
\* between the Start and its End, the even ones (0-based) the keys
C10_DictionaryLayout ==
    Flattened =>
        LET evs == into_events.buf
            starts == IndicesOf(evs, "StartDictionary")
            nodes == DictNodes(value)
        IN  /\ Len(starts) = Len(nodes)
            /\ \A k \in 1..Len(nodes) :
                 LET d == nodes[k].val
                     i == starts[k]
                     j == MatchEnd(evs, i)
                     kids == ChildSpans(evs, i + 1, j - 1)
                 IN  /\ evs[i] = StartDictionary(Some(Len(d)))
                     /\ j > i
                     /\ evs[j] = EndDictionary
                     /\ Len(kids) = 2 * Len(d)
                     /\ \A n \in 1..Len(d) :
                          /\ kids[2 * n - 1][1] = kids[2 * n - 1][2]
                          /\ evs[kids[2 * n - 1][1]] = StringValue(d[n][1])
                          /\ SubSeq(evs, kids[2 * n][1], kids[2 * n][2])
                               = new_inner(d[n][2], <<>>)
            /\ value = Val("Dictionary", << <<"Age", Val("Integer", 28)>> >>) =>
                 evs = << StartDictionary(Some(1)), StringValue("Age"),
                          IntegerValue(28), EndDictionary >>

\* C10 witness: a two-entry dictionary whose first value is itself a container
C10_Witness ==
    /\ Flattened
    /\ value = Val("Dictionary", << <<"Age", Val("Array", << Val("Integer", 28) >>)>>,
                                    <<"Height", Val("Real", "181.2")>> >>)
    /\ into_events.buf = << StartDictionary(Some(2)), StringValue("Age"),
                            StartArray(Some(1)), IntegerValue(28), EndArray,
                            StringValue("Height"), RealValue("181.2"), EndDictionary >>

\* the Array nodes of a Value in pre-order
ArrayNodes(v) == SelectSeq(PreOrder(v), LAMBDA n : n.kind = "Array")

\* C11: every Array node of n elements flattens to StartArray(Some(n)), then the
\* whole flattening of each element in the array's order, then EndArray: the
\* hint is always present and counts exactly the direct children between the
\* Start and its matching End
C11_ArrayLayout ==
    Flattened =>
        LET evs == into_events.buf
            starts == IndicesOf(evs, "StartArray")
            nodes == ArrayNodes(value)
        IN  /\ Len(starts) = Len(nodes)
            /\ \A k \in 1..Len(nodes) :
                 LET a == nodes[k].val
                     i == starts[k]
                     j == MatchEnd(evs, i)
                     kids == ChildSpans(evs, i + 1, j - 1)
                 IN  /\ IsSome(evs[i].val)
                     /\ Unwrap(evs[i].val) = Len(a)
                     /\ j > i
                     /\ evs[j] = EndArray
                     /\ Len(kids) = Len(a)
                     /\ \A n \in 1..Len(a) :
                          SubSeq(evs, kids[n][1], kids[n][2]) = new_inner(a[n], <<>>)

\* C11 witness: a three-element array whose first element is itself an array
C11_Witness ==
    /\ Flattened
    /\ value = Val("Array", << Val("Array", <<>>), Val("Integer", 28),
                               Val("String", "Age") >>)
    /\ into_events.buf = << StartArray(Some(3)), StartArray(Some(0)), EndArray,
                            IntegerValue(28), StringValue("Age"), EndArray >>

\* the End event that closes a Start event of the same container kind
EndOf(e) == IF e.kind = "StartArray" THEN EndArray ELSE EndDictionary

\* the containers without children among the nodes of a Value, in pre-order
EmptyNodes(v) ==
    SelectSeq(PreOrder(v),
              LAMBDA n : n.kind \in {"Array", "Dictionary"} /\ Len(n.val) = 0)

\* the positions of the Start events whose hint is Some(0)
EmptyStarts(evs) ==
    SelectSeq([i \in 1..Len(evs) |-> i],
              LAMBDA i : IsStart(evs[i]) /\ evs[i].val = Some(0))

\* C12: a container without children flattens to exactly its Start/End pair,
\* [StartArray(Some(0)), EndArray] or [StartDictionary(Some(0)), EndDictionary],
\* at the top as well as nested; and a Start event whose hint is Some(0) is
\* directly followed by its matching End
C12_EmptyContainers ==
    Flattened =>
        LET evs == into_events.buf
            starts == EmptyStarts(evs)
            nodes == EmptyNodes(value)
        IN  /\ value = Val("Array", <<>>) => evs = << StartArray(Some(0)), EndArray >>
            /\ value = Val("Dictionary", <<>>) =>
                 evs = << StartDictionary(Some(0)), EndDictionary >>
            /\ Len(starts) = Len(nodes)
            /\ \A k \in 1..Len(starts) :
                 LET i == starts[k]
                 IN  /\ i < Len(evs)
                     /\ evs[i].kind = "Start" \o nodes[k].kind
                     /\ evs[i + 1] = EndOf(evs[i])
                     /\ MatchEnd(evs, i) = i + 1

\* C12 witness: an empty dictionary and an empty array nested in an array
C12_Witness ==
    /\ Flattened
    /\ value = Val("Array", << Val("Dictionary", <<>>), Val("Array", <<>>) >>)
    /\ into_events.buf = << StartArray(Some(2)), StartDictionary(Some(0)),
                            EndDictionary, StartArray(Some(0)), EndArray, EndArray >>

\* whether a node of a Value is a container
IsContainer(n) == n.kind \in {"Array", "Dictionary"}

\* the number of dictionary entries held by the nodes from the i-th on
RECURSIVE EntryCount(_, _)
EntryCount(nodes, i) ==
    IF i > Len(nodes) THEN 0
    ELSE (IF nodes[i].kind = "Dictionary" THEN Len(nodes[i].val) ELSE 0)
         + EntryCount(nodes, i + 1)

\* the positions of the key events: the odd direct children of a dictionary
KeyPositions(evs) ==
    { p \in 1..Len(evs) :
        \E i \in 1..Len(evs) :
            /\ evs[i].kind = "StartDictionary"
            /\ LET kids == ChildSpans(evs, i + 1, MatchEnd(evs, i) - 1)
               IN  \E n \in 1..Len(kids) : n % 2 = 1 /\ kids[n][1] = p }

\* the positions of the events that open a node: neither an End nor a key
NodePositions(evs) ==
    LET keys == KeyPositions(evs)
    IN  SelectSeq([i \in 1..Len(evs) |-> i],
                  LAMBDA i : ~IsEnd(evs[i]) /\ i \notin keys)

\* the event a node is announced by: the value event of its kind with its
\* payload, or the Start event of its kind with its number of children
HeadEvent(n) ==
    IF IsContainer(n) THEN Event("Start" \o n.kind, Some(Len(n.val)))
    ELSE Event(n.kind \o "Value", n.val)

\* C15: flattening visits every node exactly once, in pre-order: the events
\* that are neither an End nor a dictionary key are, in order, the value event
\* (same kind, same payload) of each scalar node and the Start of each
\* container node; there is one End per container and one key per dictionary
\* entry, so the length is scalars + 2 * containers + entries
C15_TotalTraversal ==
    Flattened =>
        LET evs == into_events.buf
            nodes == PreOrder(value)
            containers == Len(SelectSeq(nodes, IsContainer))
            scalars == Len(nodes) - containers
            entries == EntryCount(nodes, 1)
            heads == NodePositions(evs)
        IN  /\ Len(evs) = scalars + 2 * containers + entries
            /\ Len(heads) = Len(nodes)
            /\ \A k \in 1..Len(nodes) : evs[heads[k]] = HeadEvent(nodes[k])
            /\ Len(SelectSeq(evs, IsEnd)) = containers
            /\ Len(IndicesOf(evs, "EndArray")) = Len(ArrayNodes(value))
            /\ Len(IndicesOf(evs, "EndDictionary")) = Len(DictNodes(value))
            /\ Cardinality(KeyPositions(evs)) = entries
            /\ \A p \in KeyPositions(evs) : evs[p].kind = "StringValue"

\* C15 witness: two scalars, two containers and two entries make eight events
C15_Witness ==
    /\ Flattened
    /\ value = Val("Dictionary", << <<"Age", Val("Array", << Val("Data", <<202, 254>>) >>)>>,
                                    <<"Height", Val("Date", "2001-01-01T00:00:00Z")>> >>)
    /\ Len(into_events.buf) = 8
    /\ into_events.buf[4] = DataValue(<<202, 254>>)
    /\ into_events.buf[7] = DateValue("2001-01-01T00:00:00Z")

----------------------------------------------------------------------------
(* The reading scenario: a caller wraps a stream and pulls the Reader       *)

\* the pulls so far that took the Err arm (mod.rs:137-140): the probe returned
\* an error, the stream was put back and the error returned; a pull that
\* unwound, in the probe or in take().unwrap(), is none of them
Failures ==
    Cardinality({ k \in 1..Len(trace) :
                    /\ trace[k].before = "Uninitialized"
                    /\ trace[k].after = "Uninitialized"
                    /\ ~trace[k].panicked })

InitReader ==
    /\ mode = "reader"
    /\ \E data \in Contents : \E pos \in StartPositions(data) :
         LET r == Reader_new([data |-> data, pos |-> pos])
         IN  /\ wrapped = [data |-> data, pos |-> pos]
             /\ stream = r.reader
             /\ inner = r.inner
    /\ rets = <<>>
    /\ trace = <<>>
    /\ value = Val("Boolean", FALSE)
    /\ fpc = "idle"
    /\ into_events = into_iter(<<>>)
    /\ results = <<>>
    /\ pending = FALSE
    /\ sink = NewSink

\* what the stream can do to a probe: the fault, and for a failing read the
\* position it leaves
ProbeInputs ==
    { [fault |-> f, left |-> 0] : f \in Faults \ {"read"} }
    \cup { [fault |-> "read", left |-> n] :
             n \in {0, Min(3, Len(stream.data)), Min(MagicLen, Len(stream.data))} }

\* reader.next()
ReaderNext ==
    /\ mode = "reader"
    /\ Len(rets) < MaxPulls
    /\ \A k \in 1..Len(trace) : ~trace[k].panicked
    /\ \E io \in (IF IsBound(inner) THEN {[fault |-> "none", left |-> 0]} ELSE ProbeInputs) :
         \E r \in {Reader_next([inner |-> inner, reader |-> stream], io, 1)} :
             /\ (r.inner.tag = "Uninitialized" /\ ~r.panicked) => Failures < MaxFailures
             /\ inner' = r.inner
             /\ stream' = r.reader
             /\ rets' = Append(rets, r.ret)
             /\ trace' = Append(trace, [before |-> inner.tag, after |-> r.inner.tag,
                                        stream |-> stream,
                                        io |-> io, ops |-> r.ops, depth |-> r.depth,
                                        handed |-> r.handed, panicked |-> r.panicked])
    /\ UNCHANGED <<mode, wrapped, eventVars>>

NextReader == ReaderNext

SpecReader == InitReader /\ [][NextReader]_vars

\* what a panicking stream does to a probe: which call panics, and for the
\* read the position it leaves
UnwindInputs ==
    { [fault |-> f, left |-> 0] : f \in Unwinds \ {"read panics"} }
    \cup { [fault |-> "read panics", left |-> n] :
             n \in {0, Min(3, Len(stream.data))} }

\* reader.next() that ends in a panic, by a caller that catches the unwinding
\* (std::panic::catch_unwind) and keeps the Reader: a pull whose probe meets
\* a panicking call of the stream, or a pull that finds Uninitialized(None)
\* and panics in reader.take().unwrap(); no value is returned. A probe meets
\* a panicking call only while it could still return an error (fewer than
\* MaxFailures have), the pull after it is always there, and the caller stops
\* pulling after the first panic in unwrap
ReaderNextUnwinds ==
    /\ mode = "reader"
    /\ inner.held => (Len(trace) < MaxPulls /\ Failures < MaxFailures)
    /\ \A k \in 1..Len(trace) : ~(trace[k].panicked /\ trace[k].ops = <<>>)
    /\ inner.tag = "Uninitialized"
    /\ \E io \in (IF inner.held THEN UnwindInputs ELSE {[fault |-> "none", left |-> 0]}) :
         \E r \in {Reader_next([inner |-> inner, reader |-> stream], io, 1)} :
             /\ r.panicked
             /\ inner' = r.inner
             /\ stream' = r.reader
             /\ trace' = Append(trace, [before |-> inner.tag, after |-> r.inner.tag,
                                        stream |-> stream,
                                        io |-> io, ops |-> r.ops, depth |-> r.depth,
                                        handed |-> r.handed, panicked |-> r.panicked])
    /\ UNCHANGED <<mode, wrapped, rets, eventVars>>

\* the pulls of a Reader whose stream may return errors and may panic
NextUnwind == ReaderNext \/ ReaderNextUnwinds

SpecUnwind == InitReader /\ [][NextUnwind]_vars

Init == InitEvents \/ InitReader

Next == NextEvents \/ NextUnwind

Spec == Init /\ [][Next]_vars

----------------------------------------------------------------------------
(* Claims about the Reader *)

\* the k-th pull found the Reader Uninitialized and so probed the stream
Probed(k) == trace[k].before = "Uninitialized"

\* the k-th pull bound the Reader to a sub-reader
BoundAt(k) == Probed(k) /\ trace[k].after # "Uninitialized"

\* the stream holds the 8 bytes the probe reads
Readable == Len(stream.data) >= MagicLen

\* the first 8 bytes of the stream are b"bplist00"
StartsWithMagic ==
    /\ Readable
    /\ \A i \in 1..MagicLen : stream.data[i] = Magic[i]

\* the error the probe of the k-th pull must report, from what the stream did
\* to it and how many bytes it holds; None when every step succeeds
ProbeError(k) ==
    CASE trace[k].io.fault = "seek1" -> Some("io: seek")
      [] trace[k].io.fault = "read" -> Some("io: read")
      [] ~Readable -> Some("io: UnexpectedEof")
      [] trace[k].io.fault = "seek2" -> Some("io: seek")
      [] OTHER -> None

Pulls == 1..Len(trace)

\* C3: a probing pull on a stream of 8 bytes or more whose seeks and read
\* succeed binds, to Binary if the first 8 bytes are exactly "bplist00" and to
\* Xml for every other 8 bytes; and no pull binds otherwise
C3_BindsByMagic ==
    mode = "reader" =>
        \A k \in Pulls :
            /\ (Probed(k) /\ ProbeError(k) = None) =>
                   trace[k].after = (IF StartsWithMagic THEN "Binary" ELSE "Xml")
            /\ BoundAt(k) =>
                   /\ Readable
                   /\ (trace[k].after = "Binary") <=> StartsWithMagic
                   /\ (trace[k].after = "Xml") <=> ~StartsWithMagic

\* C3 witness: a stream that differs from the signature in its last byte only
\* is bound to Xml
C3_Witness ==
    /\ mode = "reader"
    /\ stream.data = <<98, 112, 108, 105, 115, 116, 48, 66, 60>>
    /\ Len(trace) = 1
    /\ inner.tag = "Xml"

\* C4: the stream handed to the sub-reader a pull builds is at offset 0, on the
\* Binary and on the Xml branch, wherever it was when the pull began
C4_HandedAtStart ==
    mode = "reader" =>
        /\ \A k \in Pulls : BoundAt(k) => trace[k].handed = Some(0)
        /\ IsBound(inner) => Unwrap(inner.parser).start = 0

\* C4 witness: the stream was wrapped at offset 3, a failed second seek left it
\* at offset 8, and the next pull bound it to Binary
C4_Witness ==
    /\ mode = "reader"
    /\ Len(trace) = 2
    /\ trace[1].stream.pos = 3
    /\ trace[2].stream.pos = 8
    /\ BoundAt(2)
    /\ inner.tag = "Binary"

\* C5: a pull whose probe fails (first seek, read of 8 bytes, second seek)
\* returns the error of the failing step, builds no sub-reader, and leaves the
\* Reader Uninitialized, holding the same stream
C5_ProbeFailureRestores ==
    (mode = "reader" /\ trace # <<>>) =>
        LET k == Len(trace)
        IN  (Probed(k) /\ ProbeError(k) # None) =>
                /\ rets[k] = Some(Err(Unwrap(ProbeError(k))))
                /\ inner = Uninitialized(TRUE)
                /\ stream.data = trace[k].stream.data
                /\ trace[k].handed = None
                /\ ~trace[k].panicked

\* C5 witness: the read of one probe and the second seek of the next have
\* failed on a stream that begins with the signature
C5_Witness ==
    /\ mode = "reader"
    /\ StartsWithMagic
    /\ inner = Uninitialized(TRUE)
    /\ Len(trace) = 2
    /\ trace[1].io.fault = "read"
    /\ trace[2].io.fault = "seek2"
    /\ rets = << Some(Err("io: read")), Some(Err("io: seek")) >>

ProbeErrors == {"io: seek", "io: read", "io: UnexpectedEof"}

\* C6: a stream of fewer than 8 bytes never binds: the Reader stays
\* Uninitialized and every pull returns a probe error, UnexpectedEof when the
\* stream itself does not fail
C6_ShortStreamNeverBinds ==
    (mode = "reader" /\ ~Readable) =>
        /\ inner = Uninitialized(TRUE)
        /\ \A k \in Pulls :
               /\ rets[k] # None
               /\ IsErr(Unwrap(rets[k]))
               /\ Unwrap(rets[k]).val \in ProbeErrors
               /\ trace[k].io.fault = "none" => rets[k] = Some(Err("io: UnexpectedEof"))

\* C6 witness: the 7-byte prefix of the signature has been pulled twice
C6_Witness ==
    /\ mode = "reader"
    /\ stream.data = SubSeq(Magic, 1, 7)
    /\ Len(rets) = 2
    /\ rets[2] = Some(Err("io: UnexpectedEof"))

\* every pull that found the Reader bound left it bound to the same sub-reader
Irreversible ==
    /\ \A k \in Pulls : trace[k].before # "Uninitialized" => trace[k].after = trace[k].before
    /\ \A k \in Pulls : k > 1 => trace[k].before = trace[k - 1].after
    /\ trace # <<>> => inner.tag = trace[Len(trace)].after

\* C7 as claimed: the Reader is bound by its first pull, and irreversibly so
C7_BindsOnFirstPull ==
    mode = "reader" =>
        /\ Irreversible
        /\ trace # <<>> => BoundAt(1)

\* C7, amended: the Reader is bound at most once, by the first pull whose probe
\* succeeds (the pulls before it leave it Uninitialized), and stays bound to
\* that sub-reader whatever the sub-reader returns
C7_BindsOnceForGood ==
    mode = "reader" =>
        /\ Irreversible
        /\ \A k \in Pulls : BoundAt(k) <=> (Probed(k) /\ ProbeError(k) = None)
        /\ Cardinality({ k \in Pulls : BoundAt(k) }) <= 1

\* C7 witness: bound to Xml by the second pull, the Reader has since passed on
\* an error of the sub-reader and an end of stream
C7_Witness ==
    /\ mode = "reader"
    /\ Len(trace) = 4
    /\ ~BoundAt(1)
    /\ BoundAt(2)
    /\ inner.tag = "Xml"
    /\ rets[3] = Some(Err("InvalidData"))
    /\ rets[4] = None

RECURSIVE SubRun(_, _, _, _)
\* the first n results of a sub-reader of format fmt pulled on its own
SubRun(fmt, parser, reader, n) ==
    IF n = 0 THEN <<>>
    ELSE LET r == IF fmt = "Xml" THEN XmlReader_next(parser, reader)
                  ELSE BinaryReader_next(parser, reader)
         IN  <<r.ret>> \o SubRun(fmt, r.parser, r.reader, n - 1)

\* the stream of the Reader at offset 0
AtStart == [data |-> stream.data, pos |-> 0]

\* C8: when the first pull binds, the k-th result of the Reader is the k-th
\* result of the chosen sub-reader built over the stream at offset 0 and pulled
\* on its own, from k = 1 on, its errors included
C8_SameAsSubReader ==
    (mode = "reader" /\ trace # <<>> /\ BoundAt(1)) =>
        LET own == IF inner.tag = "Xml"
                   THEN SubRun("Xml", XmlReader_new(AtStart), AtStart, Len(rets))
                   ELSE SubRun("Binary", BinaryReader_new(AtStart), AtStart, Len(rets))
        IN  rets = own

\* C8 witness: bound by the first pull, the Reader returned an event, then the
\* sub-reader's error, then the end of the stream
C8_Witness ==
    /\ mode = "reader"
    /\ Len(rets) = 3
    /\ BoundAt(1)
    /\ rets = << Some(Ok(IntegerValue(60))), Some(Err("InvalidData")), None >>

\* in a sequence of pull results, nothing but None follows a None
StaysExhausted(rs) ==
    \A i, j \in 1..Len(rs) : (i < j /\ rs[i] = None) => rs[j] = None

\* C9: once a pull has returned the end of the stream every later pull returns
\* it again, from IntoEvents (and only after every event was yielded) and from
\* the Reader
C9_ExhaustionIsFinal ==
    /\ StaysExhausted(results)
    /\ StaysExhausted(rets)
    /\ \A i \in 1..Len(results) : results[i] = None => i > Len(into_events.buf)

\* C9 witness: IntoEvents has yielded its events and then returned None twice
C9_Witness ==
    /\ mode = "events"
    /\ Len(into_events.buf) >= 2
    /\ Exhaustions = 2
    /\ Len(results) = Len(into_events.buf) + 2

\* the calls the probe of the k-th pull makes on the stream: seek to 0, read
\* exactly 8 bytes, seek to 0, up to and including the first that fails
ProbeOps(k) ==
    CASE trace[k].io.fault = "seek1" -> <<"seek0">>
      [] trace[k].io.fault = "read" \/ ~Readable -> <<"seek0", "read8">>
      [] OTHER -> <<"seek0", "read8", "seek0">>

\* C13: the Reader touches the stream only to classify it, and only while
\* Uninitialized: Reader::new leaves the stream as the caller handed it over;
\* a probing pull seeks to 0, reads exactly 8 bytes and seeks to 0, stopping at
\* the first call that fails; a pull of a bound Reader makes none of these
\* calls; at most one probe succeeds, and when the probe of the first pull
\* succeeds it is the only probe there ever is
C13_ProbesOnlyToClassify ==
    mode = "reader" =>
        /\ trace = <<>> => (stream = wrapped /\ inner = Uninitialized(TRUE))
        /\ \A k \in Pulls :
               trace[k].ops = (IF Probed(k) THEN ProbeOps(k) ELSE <<>>)
        /\ Cardinality({ k \in Pulls : BoundAt(k) }) <= 1
        /\ (Len(trace) >= 1 /\ BoundAt(1)) =>
               { k \in Pulls : trace[k].ops # <<>> } = {1}

\* C13 witness: a stream wrapped away from its start; the first probe stops at
\* its failing read, the second makes all three calls and binds, and the pull
\* of the bound Reader makes none
C13_Witness ==
    /\ mode = "reader"
    /\ wrapped.pos = 3
    /\ Len(trace) = 3
    /\ trace[1].ops = <<"seek0", "read8">>
    /\ BoundAt(2)
    /\ trace[2].ops = <<"seek0", "read8", "seek0">>
    /\ trace[3].ops = <<>>

\* what the sub-reader of the Reader's variant, built on the stream as the
\* k-th pull handed it over, returns from its first call
FirstServed(k) ==
    LET rd == [data |-> stream.data, pos |-> Unwrap(trace[k].handed)]
    IN  IF trace[k].after = "Binary"
        THEN BinaryReader_next(BinaryReader_new(rd), rd).ret
        ELSE XmlReader_next(XmlReader_new(rd), rd).ret

\* C14: a pull never enters next more than twice and never probes twice: a
\* pull of a bound Reader returns from the first entry without probing; a pull
\* whose probe fails returns that error from the first entry, after that one
\* probe; a pull whose probe succeeds enters next once more, finds the Reader
\* bound and returns what the sub-reader returns, however many probes failed
\* before
C14_OneLevelNoRetry ==
    mode = "reader" =>
        \A k \in Pulls :
            /\ trace[k].depth \in {1, 2}
            /\ Len(SelectSeq(trace[k].ops, LAMBDA op : op = "read8")) <= 1
            /\ Len(trace[k].ops) <= 3
            /\ ~Probed(k) => (trace[k].depth = 1 /\ trace[k].ops = <<>>)
            /\ (Probed(k) /\ ~BoundAt(k)) =>
                   /\ trace[k].depth = 1
                   /\ rets[k] # None
                   /\ IsErr(Unwrap(rets[k]))
                   /\ ProbeError(k) # None
                   /\ rets[k] = Some(Err(Unwrap(ProbeError(k))))
            /\ BoundAt(k) =>
                   /\ trace[k].depth = 2
                   /\ IsSome(trace[k].handed)
                   /\ rets[k] = FirstServed(k)

\* C14 witness: two pulls returned their probe's error from the first entry,
\* the third bound the Reader and returned an event from the second entry
C14_Witness ==
    /\ mode = "reader"
    /\ Len(trace) = 3
    /\ trace[1].depth = 1 /\ trace[1].after = "Uninitialized"
    /\ trace[2].depth = 1 /\ trace[2].after = "Uninitialized"
    /\ BoundAt(3)
    /\ trace[3].depth = 2
    /\ rets[3] # None
    /\ ~IsErr(Unwrap(rets[3]))

\* who holds the stream between two pulls: the Uninitialized variant when its
\* Option is Some, the sub-reader of a bound variant
Holders ==
    (IF inner.tag = "Uninitialized" /\ inner.held THEN {"Uninitialized"} ELSE {})
    \cup (IF IsSome(inner.parser) THEN {inner.tag} ELSE {})

\* the k-th pull found Uninitialized(None) and panicked in
\* reader.take().unwrap(), before any call on the stream
UnwrapPanicked(k) ==
    /\ trace[k].before = "Uninitialized"
    /\ trace[k].panicked
    /\ trace[k].ops = <<>>

\* C16: between pulls the stream has exactly one holder, Uninitialized(Some)
\* or the one sub-reader of the bound variant; Uninitialized(None) is never
\* what a pull finds, so reader.take().unwrap() never panics in any sequence of
\* pulls. The code does not keep this: a call of the stream that panics inside
\* the probe unwinds out of next between take() and the restore, and leaves
\* Uninitialized(None) for the next pull to panic on
C16_SingleOwner ==
    mode = "reader" =>
        /\ Cardinality(Holders) = 1
        /\ inner.tag = "Uninitialized" => inner = Uninitialized(TRUE)
        /\ IsBound(inner) => (~inner.held /\ IsSome(inner.parser))
        /\ \A k \in Pulls : ~UnwrapPanicked(k)

\* C16 witness: the read of the first pull's probe panicked, the Reader was
\* left as Uninitialized(None) without a holder of the stream, and the second
\* pull panicked in reader.take().unwrap()
C16_Witness ==
    /\ mode = "reader"
    /\ Len(trace) = 2
    /\ trace[1].io.fault = "read panics"
    /\ trace[1].ops = <<"seek0", "read8">>
    /\ trace[1].after = "Uninitialized"
    /\ UnwrapPanicked(2)
    /\ inner = Uninitialized(FALSE)
    /\ Holders = {}
    /\ rets = <<>>

\* what a pull does to a Reader just built over the same bytes with the stream
\* at offset p, when the stream treats the probe as it treated the k-th pull's
FreshPull(k, p) ==
    Reader_next(Reader_new([data |-> stream.data, pos |-> p]), trace[k].io, 1)

\* what a pull decides: the variant it leaves, what it returns, the calls of
\* its probe and the offset of the stream it hands to the sub-reader
Decision(o) ==
    [after |-> o.inner.tag, ret |-> o.ret, ops |-> o.ops, handed |-> o.handed]

\* C17: a pull that follows a failed probe decides as a pull of a Reader just
\* built over the same bytes at offset 0 would, given the same successes and
\* failures of its seeks and its read, wherever the failed probe left the
\* stream; when it binds, the sub-reader is handed the stream at offset 0 and
\* the Reader and the stream are left as after that first pull (stated of the
\* latest pull, which every pull is in the state that follows it)
C17_CleanRetry ==
    mode = "reader" =>
        \A k \in {Len(trace)} :
            (k > 1 /\ Probed(k)) =>
                \E fresh \in {FreshPull(k, 0)} : \E decided \in {Decision(fresh)} :
                    /\ decided = [after |-> trace[k].after, ret |-> rets[k],
                                  ops |-> trace[k].ops, handed |-> trace[k].handed]
                    /\ \A p \in 0..Len(stream.data) :
                           \E other \in {FreshPull(k, p)} : Decision(other) = decided
                    /\ BoundAt(k) => trace[k].handed = Some(0)
                    /\ (BoundAt(k) /\ k = Len(trace)) =>
                           (inner = fresh.inner /\ stream = fresh.reader)

\* C17 witness: the second seek of the first probe failed and left the stream
\* at offset 8; the retried pull binds and hands the stream over at offset 0
C17_Witness ==
    /\ mode = "reader"
    /\ Len(trace) = 2
    /\ trace[1].io.fault = "seek2"
    /\ trace[2].stream.pos = 8
    /\ BoundAt(2)
    /\ trace[2].handed = Some(0)
    /\ stream.pos > 0

====
